---- MODULE Spec2Model ----
(***************************************************************************)
(* Model of utils/Graph.py: the weighted directed graph (DirectedGraph),   *)
(* the cycle finders cyclic() and cycles(), and DirectedGraph.remove_cycles*)
(*                                                                         *)
(* A Python dict is modelled as a sequence of records [k |-> key,          *)
(* v |-> value] in insertion order: iteration order is part of the         *)
(* behaviour (get_list_nodes, get_dict_nw, cycles()[0] all depend on it).  *)
(* Node labels and weights are both numbers, as Python compares an int     *)
(* label with a float weight by value (1 == 1.0).                          *)
(***************************************************************************)
EXTENDS Integers, Sequences, FiniteSets, TLC

NumNodes == 2
MaxWeight == 3
MaxApiWeight == 1
MaxEdges == 2
NumViewNodes == 3
MaxViewEdges == 3

\* node labels of the graphs built with add
Nodes == 1..NumNodes
\* node labels of the views handed to cyclic and cycles
ViewNodes == 1..NumViewNodes
\* weights of the graphs handed to remove_cycles
Weights == 0..MaxWeight
\* weights used when exploring the EdgeStore operations, failing calls included
ApiWeights == 0..MaxApiWeight
\* the default value of reverse_edge's weight parameter
None == -1

VARIABLES graph, pc, err, ret, list_ordered_edges, g0, cc, r_edge, outcome, view

vars == <<graph, pc, err, ret, list_ordered_edges, g0, cc, r_edge, outcome, view>>

----
\* Python dict, in insertion order

HasKey(d, key) == \E i \in 1..Len(d) : d[i].k = key

Get(d, key) == d[CHOOSE i \in 1..Len(d) : d[i].k = key].v

\* d[key] = val : an existing key keeps its position, a new one goes last
Put(d, key, val) ==
  IF HasKey(d, key)
  THEN [i \in 1..Len(d) |-> IF d[i].k = key THEN [k |-> key, v |-> val] ELSE d[i]]
  ELSE Append(d, [k |-> key, v |-> val])

\* del d[key]
Del(d, key) == SelectSeq(d, LAMBDA e : e.k # key)

\* defaultdict.__missing__ : reading a missing key inserts the default
Vivify(d, key, default) == IF HasKey(d, key) THEN d ELSE Append(d, [k |-> key, v |-> default])

Range(s) == {s[i] : i \in 1..Len(s)}

----
\* DirectedGraph

NumEdges(g) ==
  LET RECURSIVE Sum(_)
      Sum(i) == IF i = 0 THEN 0 ELSE Len(g[i].v) + Sum(i - 1)
  IN Sum(Len(g))

HasEdge(g, node1, node2) == HasKey(g, node1) /\ HasKey(Get(g, node1), node2)

WeightOf(g, node1, node2) == Get(Get(g, node1), node2)

EdgeSet(g) == UNION {{<<g[i].k, g[i].v[j].k>> : j \in 1..Len(g[i].v)} : i \in 1..Len(g)}

\* self._graph[node1][node2] = weight
add(g, node1, node2, weight) ==
  LET g1 == Vivify(g, node1, <<>>)
  IN Put(g1, node1, Put(Get(g1, node1), node2, weight))

\* del self._graph[node1][node2]; the source's entry is dropped when empty.
\* self._graph[node1] is read through the defaultdict, so a missing source
\* is inserted before the KeyError on node2.
remove_edge(g, node1, node2) ==
  LET g1 == Vivify(g, node1, <<>>)
  IN IF ~HasKey(Get(g1, node1), node2)
     THEN [g |-> g1, err |-> "KeyError"]
     ELSE LET g2 == Put(g1, node1, Del(Get(g1, node1), node2))
          IN [g |-> IF Len(Get(g2, node1)) = 0 THEN Del(g2, node1) ELSE g2,
              err |-> "none"]

\* "if not weight" is true of None and of 0
reverse_edge(g, node1, node2, weight) ==
  LET useOld == weight = None \/ weight = 0
      g1 == IF useOld THEN Vivify(g, node1, <<>>) ELSE g
  IN IF useOld /\ ~HasKey(Get(g1, node1), node2)
     THEN [g |-> g1, err |-> "KeyError"]
     ELSE LET w == IF useOld THEN WeightOf(g1, node1, node2) ELSE weight
              r == remove_edge(g1, node1, node2)
          IN IF r.err # "none" THEN r
             ELSE [g |-> add(r.g, node2, node1, w), err |-> "none"]


AppendNew(s, x) == IF x \in Range(s) THEN s ELSE Append(s, x)

\* union of sources and targets, in order of first discovery
get_list_nodes(g) ==
  LET RECURSIVE Inner(_, _, _), Outer(_, _)
      Inner(nodes, adj, j) ==
        IF j > Len(adj) THEN nodes
        ELSE Inner(AppendNew(nodes, adj[j].k), adj, j + 1)
      Outer(nodes, i) ==
        IF i > Len(g) THEN nodes
        ELSE Outer(Inner(AppendNew(nodes, g[i].k), g[i].v, 1), i + 1)
  IN Outer(<<>>, 1)

\* zip(weights, list_edges) before sorting: one (weight, [i, j]) per edge,
\* in the store's iteration order
WeightedEdges(g) ==
  LET RECURSIVE Inner(_, _, _, _), Outer(_, _)
      Inner(acc, src, adj, j) ==
        IF j > Len(adj) THEN acc
        ELSE Inner(Append(acc, [w |-> adj[j].v, e |-> <<src, adj[j].k>>]), src, adj, j + 1)
      Outer(acc, i) ==
        IF i > Len(g) THEN acc
        ELSE Outer(Inner(acc, g[i].k, g[i].v, 1), i + 1)
  IN Outer(<<>>, 1)

\* a sort on the weight alone, as sorted(..., key=weight) would order
WeightLess(a, b) == a.w < b.w

\* Python's order on the tuples (weight, [i, j]): the weight first, then the
\* edge's labels, lexicographically
TupleLess(a, b) ==
  \/ a.w < b.w
  \/ a.w = b.w /\ a.e[1] < b.e[1]
  \/ a.w = b.w /\ a.e[1] = b.e[1] /\ a.e[2] < b.e[2]

\* sorted(items, reverse=reverse): a stable sort
sorted(items, reverse) ==
  LET Before(x, y) == IF reverse THEN TupleLess(y, x) ELSE TupleLess(x, y)
      RECURSIVE Insert(_, _), Sort(_, _)
      Insert(x, s) ==
        IF s = <<>> THEN <<x>>
        ELSE IF Before(x, Head(s)) THEN <<x>> \o s
        ELSE <<Head(s)>> \o Insert(x, Tail(s))
      Sort(acc, i) ==
        IF i > Len(items) THEN acc ELSE Sort(Insert(items[i], acc), i + 1)
  IN Sort(<<>>, 1)

\* returns (list_edges, weights); the unpacking of zip(*sorted(...)) into
\* two names raises ValueError when there is no edge
get_list_edges(g, order_by_weight, descending) ==
  LET nat == WeightedEdges(g)
      s == IF order_by_weight THEN sorted(nat, descending) ELSE nat
  IN IF order_by_weight /\ nat = <<>>
     THEN [val |-> <<>>, err |-> "ValueError"]
     ELSE [val |-> << [i \in 1..Len(s) |-> s[i].e], [i \in 1..Len(s) |-> s[i].w] >>,
           err |-> "none"]

\* the graph without weights; every target is also a key
get_dict_nw(g) ==
  LET RECURSIVE Inner(_, _, _, _), Outer(_, _)
      Inner(d, src, adj, j) ==
        IF j > Len(adj) THEN d
        ELSE LET d1 == Vivify(d, src, <<>>)
                 d2 == Put(d1, src, Append(Get(d1, src), adj[j].k))
             IN Inner(Vivify(d2, adj[j].k, <<>>), src, adj, j + 1)
      Outer(d, i) ==
        IF i > Len(g) THEN d
        ELSE Outer(Inner(d, g[i].k, g[i].v, 1), i + 1)
  IN Outer(<<>>, 1)

\* for node1, node2, weight in connections: self.add(node1, node2, weight)
add_edges(g, connections) ==
  LET RECURSIVE Loop(_, _)
      Loop(acc, i) ==
        IF i > Len(connections) THEN acc
        ELSE Loop(add(acc, connections[i][1], connections[i][2], connections[i][3]), i + 1)
  IN Loop(g, 1)

----
\* cyclic(g) and cycles(g)

\* visit(vertex) with the sets path and visited shared by all the calls;
\* st = [visited, path], the result adds ret, the value returned
RECURSIVE visit(_, _, _), visit_neighbours(_, _, _, _)
visit(g, vertex, st) ==
  IF vertex \in st.visited
  THEN [ret |-> FALSE, visited |-> st.visited, path |-> st.path]
  ELSE visit_neighbours(g, vertex,
                        IF HasKey(g, vertex) THEN Get(g, vertex) ELSE <<>>,
                        [visited |-> st.visited \cup {vertex},
                         path |-> st.path \cup {vertex}])

visit_neighbours(g, vertex, ns, st) ==
  IF ns = <<>>
  THEN [ret |-> FALSE, visited |-> st.visited, path |-> st.path \ {vertex}]
  ELSE IF Head(ns) \in st.path
  THEN [ret |-> TRUE, visited |-> st.visited, path |-> st.path]
  ELSE LET r == visit(g, Head(ns), st)
       IN IF r.ret THEN r
          ELSE visit_neighbours(g, vertex, Tail(ns), [visited |-> r.visited, path |-> r.path])

\* any(visit(v) for v in g)
cyclic(g) ==
  LET RECURSIVE AnyVisit(_, _)
      AnyVisit(i, st) ==
        IF i > Len(g) THEN FALSE
        ELSE LET r == visit(g, g[i].k, st)
             IN r.ret \/ AnyVisit(i + 1, [visited |-> r.visited, path |-> r.path])
  IN AnyVisit(1, [visited |-> {}, path |-> {}])

\* the test without "path and": the start frame itself counts as closed
closes_ignoring_path(state, path, end) == state = end

\* "if path and state == end": a popped frame is a closed path
closes(state, path, end) == path # <<>> /\ state = end

\* the generator dfs(graph, start, end): the paths it yields, in order.
\* fringe is a stack of (state, path) frames.
dfs(g, start, end) ==
  LET RECURSIVE Loop(_, _)
      Loop(fringe, out) ==
        IF fringe = <<>> THEN out
        ELSE LET top == fringe[Len(fringe)]
                 rest == SubSeq(fringe, 1, Len(fringe) - 1)
                 state == top[1]
                 path == top[2]
             IN IF closes(state, path, end)
                THEN Loop(rest, Append(out, path))
                ELSE LET ns == SelectSeq(Get(g, state), LAMBDA n : n \notin Range(path))
                     IN Loop(rest \o [i \in 1..Len(ns) |-> <<ns[i], Append(path, ns[i])>>], out)
  IN Loop(<< <<start, <<>> >> >>, <<>>)

\* [[node] + path for node in g for path in dfs(g, node, node) if path]
cycles(g) ==
  LET RECURSIVE Loop(_, _)
      Loop(i, out) ==
        IF i > Len(g) THEN out
        ELSE LET ps == SelectSeq(dfs(g, g[i].k, g[i].k), LAMBDA p : p # <<>>)
             IN Loop(i + 1, out \o [j \in 1..Len(ps) |-> <<g[i].k>> \o ps[j]])
  IN Loop(1, <<>>)

----
\* value of ret when the last call returned nothing
NoRet == [op |-> "none", order_by_weight |-> FALSE, descending |-> FALSE, val |-> <<>>]

Init ==
  /\ graph = <<>>
  /\ pc = "idle"
  /\ err = "none"
  /\ ret = NoRet
  /\ list_ordered_edges = <<>>
  /\ g0 = <<>>
  /\ cc = <<>>
  /\ r_edge = <<>>
  /\ outcome = "none"
  /\ view = <<>>

----
\* EdgeStore operations, called on an idle graph

Add(node1, node2, weight) ==
  /\ pc = "idle"
  /\ HasEdge(graph, node1, node2) \/ NumEdges(graph) < MaxEdges
  /\ graph' = add(graph, node1, node2, weight)
  /\ err' = "none"
  /\ ret' = NoRet
  /\ UNCHANGED <<pc, list_ordered_edges, g0, cc, r_edge, outcome, view>>

RemoveEdge(node1, node2) ==
  /\ pc = "idle"
  /\ LET r == remove_edge(graph, node1, node2)
     IN graph' = r.g /\ err' = r.err
  /\ ret' = NoRet
  /\ UNCHANGED <<pc, list_ordered_edges, g0, cc, r_edge, outcome, view>>

ReverseEdge(node1, node2, weight) ==
  /\ pc = "idle"
  /\ LET r == reverse_edge(graph, node1, node2, weight)
     IN graph' = r.g /\ err' = r.err
  /\ ret' = NoRet
  /\ UNCHANGED <<pc, list_ordered_edges, g0, cc, r_edge, outcome, view>>

GetListEdges(order_by_weight, descending) ==
  /\ pc = "idle"
  /\ LET r == get_list_edges(graph, order_by_weight, descending)
     IN /\ ret' = [op |-> "get_list_edges", order_by_weight |-> order_by_weight,
                   descending |-> descending, val |-> r.val]
        /\ err' = r.err
  /\ UNCHANGED <<graph, pc, list_ordered_edges, g0, cc, r_edge, outcome, view>>

\* add, remove_edge and reverse_edge in any order, failing calls included
Next ==
  \/ \E n1, n2 \in Nodes, w \in ApiWeights : Add(n1, n2, w)
  \/ \E n1, n2 \in Nodes : RemoveEdge(n1, n2)
  \/ \E n1, n2 \in Nodes, w \in ApiWeights \cup {None} : ReverseEdge(n1, n2, w)

Spec == Init /\ [][Next]_vars

\* get_list_edges on the graphs built with add
NextListing ==
  \/ \E n1, n2 \in Nodes, w \in ApiWeights : Add(n1, n2, w)
  \/ \E obw, desc \in BOOLEAN : GetListEdges(obw, desc)

SpecListing == Init /\ [][NextListing]_vars

----
\* remove_cycles, one step per pass through the while loop

\* s_cycle[i:i + 2] for i in range(len(s_cycle) - 1)
Slices(s_cycle) == [i \in 1..(Len(s_cycle) - 1) |-> SubSeq(s_cycle, i, i + 1)]

\* edge == s_cycle[i:i + 2], for edge the element at position pos of the
\* tuple get_list_edges() returned.  Position 1 is list_edges, a list of
\* [i, j] lists: a list never equals a node label, so the two are equal only
\* when both are empty.  Position 2 is the list of weights, numbers compared
\* with the labels by value.
EqualsSlice(pos, edge, slice) ==
  IF pos = 1
  THEN Len(edge) = Len(slice) /\ Len(edge) = 0
  ELSE edge = slice

\* next(edge for edge in list_ordered_edges if any(...)): the position of
\* the first element that equals a slice of the cycle, 0 when there is none
\* (StopIteration)
SelectPos(captured, s_cycle) ==
  LET sl == Slices(s_cycle)
      hit(pos) == \E i \in 1..Len(sl) : EqualsSlice(pos, captured[pos], sl[i])
  IN IF hit(1) THEN 1 ELSE IF hit(2) THEN 2 ELSE 0

\* the comparison with <= in place of <
reversal_accepted_or_equal(test_cycles, cur_cycles) == Len(test_cycles) <= Len(cur_cycles)

\* "len(cycles(test_graph.get_dict_nw())) < len(cc)"
reversal_accepted(test_cycles, cur_cycles) == Len(test_cycles) < Len(cur_cycles)

\* list_ordered_edges = self.get_list_edges()
RemoveCyclesStart ==
  /\ pc = "idle"
  /\ g0' = graph
  /\ LET r == get_list_edges(graph, TRUE, FALSE)
     IN /\ err' = r.err
        /\ list_ordered_edges' = r.val
        /\ pc' = IF r.err = "none" THEN "loop" ELSE "failed"
  /\ ret' = NoRet
  /\ UNCHANGED <<graph, cc, r_edge, outcome, view>>

\* one pass of "while cyclic(self.get_dict_nw())"
RemoveCyclesIter ==
  /\ pc = "loop"
  /\ cyclic(get_dict_nw(graph))
  /\ LET cur == cycles(get_dict_nw(graph))
         pos == IF cur = <<>> THEN 0 ELSE SelectPos(list_ordered_edges, cur[1])
     IN /\ cc' = cur
        /\ IF cur = <<>>
           THEN /\ err' = "IndexError" /\ pc' = "failed"
                /\ UNCHANGED <<graph, r_edge, outcome>>
           ELSE IF pos = 0
           THEN /\ err' = "StopIteration" /\ pc' = "failed"
                /\ UNCHANGED <<graph, r_edge, outcome>>
           ELSE LET e == list_ordered_edges[pos]
                    test_graph == reverse_edge(graph, e[1], e[2], None)
                IN /\ r_edge' = e
                   /\ IF test_graph.err # "none"
                      THEN /\ err' = test_graph.err /\ pc' = "failed"
                           /\ UNCHANGED <<graph, outcome>>
                      ELSE IF reversal_accepted(cycles(get_dict_nw(test_graph.g)), cur)
                      THEN /\ graph' = reverse_edge(graph, e[1], e[2], None).g
                           /\ outcome' = "reversed"
                           /\ UNCHANGED <<err, pc>>
                      ELSE /\ graph' = remove_edge(graph, e[1], e[2]).g
                           /\ outcome' = "deleted"
                           /\ UNCHANGED <<err, pc>>
  /\ UNCHANGED <<ret, list_ordered_edges, g0, view>>

\* the while condition is false: remove_cycles returns
RemoveCyclesExit ==
  /\ pc = "loop"
  /\ ~cyclic(get_dict_nw(graph))
  /\ pc' = "done"
  /\ UNCHANGED <<graph, err, ret, list_ordered_edges, g0, cc, r_edge, outcome, view>>

NextAcyclify ==
  \/ \E n1, n2 \in Nodes, w \in Weights : Add(n1, n2, w)
  \/ RemoveCyclesStart
  \/ RemoveCyclesIter
  \/ RemoveCyclesExit

SpecAcyclify == Init /\ [][NextAcyclify]_vars

----
\* cyclic and cycles applied to unweighted views

\* lists of at most MaxViewEdges connections
ConnectionLists ==
  UNION {[1..n -> ViewNodes \X ViewNodes \X {0}] : n \in 0..MaxViewEdges}

\* the views get_dict_nw produces
Views == {get_dict_nw(add_edges(<<>>, c)) : c \in ConnectionLists}

InitCycles ==
  /\ view \in Views
  /\ pc = "view"
  /\ graph = <<>>
  /\ err = "none"
  /\ ret = NoRet
  /\ list_ordered_edges = <<>>
  /\ g0 = <<>>
  /\ cc = <<>>
  /\ r_edge = <<>>
  /\ outcome = "none"

CallCyclic ==
  /\ pc = "view"
  /\ ret' = [op |-> "cyclic", order_by_weight |-> FALSE, descending |-> FALSE,
             val |-> cyclic(view)]
  /\ pc' = "cyclic"
  /\ UNCHANGED <<graph, err, list_ordered_edges, g0, cc, r_edge, outcome, view>>

CallCycles ==
  /\ pc = "cyclic"
  /\ cc' = cycles(view)
  /\ pc' = "cycles"
  /\ UNCHANGED <<graph, err, ret, list_ordered_edges, g0, r_edge, outcome, view>>

NextCycles == CallCyclic \/ CallCycles

SpecCycles == InitCycles /\ [][NextCycles]_vars

----
\* Properties

NumCycles(g) == Len(cycles(get_dict_nw(g)))

NodeSet(g) == Range(get_list_nodes(g))

\* the weight of every edge of g
WeightMap(g) == [e \in EdgeSet(g) |-> WeightOf(g, e[1], e[2])]

InRemoveCycles == pc \in {"loop", "done", "failed"}

\* C1: on every input graph remove_cycles runs to completion without raising
\* an error, and the graph it leaves has no cycle.
C1_CompletesAcyclic ==
  /\ pc # "failed"
  /\ pc = "done" => ~cyclic(get_dict_nw(graph))

\* the graph A->B (0.3), B->A (0.1), with A = 1, B = 2 and the weights in
\* tenths, in either insertion order.  As with the string labels, the
\* weight list [1, 3] equals no pair of consecutive nodes of a cycle.
TwoCycleInputs ==
  {add_edges(<<>>, << <<1, 2, 3>>, <<2, 1, 1>> >>),
   add_edges(<<>>, << <<2, 1, 1>>, <<1, 2, 3>> >>)}

\* C2: on the 2-cycle A->B (0.3), B->A (0.1) remove_cycles selects B->A,
\* deletes it, and ends with the single edge A->B of weight 0.3.
C2_WeakerEdgeDeleted ==
  (g0 \in TwoCycleInputs /\ pc \in {"done", "failed"}) =>
    /\ pc = "done"
    /\ outcome = "deleted"
    /\ r_edge = <<2, 1>>
    /\ graph = add(<<>>, 1, 2, 3)

\* C3: the nodes listed after remove_cycles are the nodes listed before it,
\* also when a node loses all its edges.
C3_NodesPreserved == InRemoveCycles => NodeSet(graph) = NodeSet(g0)

\* position of edge e in a list of edges
PosOf(edges, e) == CHOOSE i \in 1..Len(edges) : edges[i] = e

\* the list is in weight order, and it holds the graph's edges, each once,
\* with its weight
OrderedByWeight(g, edges, weights, descending) ==
  /\ Len(edges) = Cardinality(EdgeSet(g))
  /\ Range(edges) = EdgeSet(g)
  /\ \A i \in 1..Len(edges) : weights[i] = WeightOf(g, edges[i][1], edges[i][2])
  /\ \A i, j \in 1..Len(edges) :
       i < j => IF descending THEN weights[i] >= weights[j] ELSE weights[i] <= weights[j]

LexLess(e, f) == e[1] < f[1] \/ (e[1] = f[1] /\ e[2] < f[2])

SortedListing == ret.op = "get_list_edges" /\ ret.order_by_weight /\ err = "none"

C5_AcyclicUnchanged ==
  (InRemoveCycles /\ ~cyclic(get_dict_nw(g0))) =>
    /\ pc # "failed"
    /\ outcome = "none"
    /\ cc = <<>>
    /\ WeightMap(graph) = WeightMap(g0)

NoEmptyEntry(g) == \A i \in 1..Len(g) : g[i].v # <<>>

\* C6: after any calls of add, remove_edge and reverse_edge no source has an
\* entry without targets; a call on an edge that does not exist fails, and a
\* failed call leaves the adjacency map as it was.
C6_NoEmptyEntries ==
  [][/\ NoEmptyEntry(graph')
     /\ \A n1, n2 \in Nodes :
          (/\ ~HasEdge(graph, n1, n2)
           /\ \/ RemoveEdge(n1, n2)
              \/ \E w \in ApiWeights \cup {None} : ReverseEdge(n1, n2, w))
          => err' = "KeyError"
     /\ err' = "KeyError" => graph' = graph]_vars

\* C7: reverse_edge(s, t, new_weight) on an existing edge, s # t, removes
\* (s, t) and leaves (t, s) with new_weight when one is given, 0 included, and
\* with the old weight otherwise; the other edges and weights are unchanged.
C7_ReverseEdgeSetsWeight ==
  [][\A s, t \in Nodes, w \in ApiWeights \cup {None} :
       (s # t /\ HasEdge(graph, s, t) /\ ReverseEdge(s, t, w)) =>
         /\ err' = "none"
         /\ EdgeSet(graph') = (EdgeSet(graph) \ {<<s, t>>}) \cup {<<t, s>>}
         /\ WeightOf(graph', t, s) = IF w = None THEN WeightOf(graph, s, t) ELSE w
         /\ \A e \in EdgeSet(graph) \ {<<s, t>>, <<t, s>>} :
              WeightOf(graph', e[1], e[2]) = WeightOf(graph, e[1], e[2])]_vars

KeySet(g) == {g[i].k : i \in 1..Len(g)}

\* [n, ..., n]: consecutive nodes are joined by an edge of g and no node
\* occurs twice before the closing n
SimpleCycles(g) ==
  LET OpenPaths == UNION {[1..n -> KeySet(g)] : n \in 1..Cardinality(KeySet(g))}
      Closed(p) == p \o <<p[1]>>
      IsCycle(p) ==
        /\ \A i, j \in 1..Len(p) : i # j => p[i] # p[j]
        /\ \A i \in 1..Len(p) : Closed(p)[i + 1] \in Range(Get(g, p[i]))
  IN {Closed(p) : p \in {q \in OpenPaths : IsCycle(q)}}

\* the same cycle, started at each of its nodes
Rotations(c) ==
  LET k == Len(c) - 1
  IN {[i \in 1..(k + 1) |-> c[((i - 1 + r) % k) + 1]] : r \in 0..(k - 1)}

C9_IterationProgress ==
  [][(RemoveCyclesIter /\ pc' = "loop") =>
       /\ outcome' = "reversed" => NumCycles(graph') < NumCycles(graph)
       /\ outcome' = "deleted" =>
            /\ NumEdges(graph') = NumEdges(graph) - 1
            /\ NumCycles(graph') <= NumCycles(graph)]_vars

\* remove_cycles committed a reversal and returned
C9_Witness == pc = "done" /\ outcome = "reversed" /\ graph # g0

\* C10: in every pass of the loop the selection yields an edge (next() does
\* not raise StopIteration), and that edge is in the graph (reverse_edge and
\* remove_edge do not raise KeyError).
C10_SelectionYieldsEdge ==
  /\ err \notin {"StopIteration", "KeyError", "IndexError"}
  /\ (InRemoveCycles /\ outcome # "none") => r_edge \in Range(list_ordered_edges[1])

====
